---- MODULE Spec2Model ----
(***************************************************************************)
(* A model of the Beeminder MCP server (src/server/index.js, the latest    *)
(* iteration of the tool, lines 418-917): the autoratchet reconciler       *)
(* adjustForAutoratchet, the urgency classifier getUrgencyHorizon with the *)
(* clock helpers NOW / MORNING / getDayStart, and the record-progress      *)
(* coordinator createAndCheckDatapoint with the lazy client bmndr.         *)
(*                                                                         *)
(* JavaScript strings are sequences of one-character strings, so that      *)
(* split, join, toString and padStart are computed, not assumed.           *)
(***************************************************************************)
EXTENDS Integers, Sequences, FiniteSets, TLC

\* ------------------------------------------------------------------------
\* Bounds of the model
\* ------------------------------------------------------------------------

\* largest raw safebuf of an enumerated goal snapshot
MaxSafebuf == 10

\* largest autoratchet setting of an enumerated goal snapshot
MaxAutoratchet == 4

\* how many days past the clock the enumerated deadlines reach
MaxDaysOut == 17

\* how many poll fetches one record-progress invocation may make in the model
MaxPolls == 3

\* how many tool invocations one run of the server handles in the model
MaxInvocations == 2

\* ------------------------------------------------------------------------
\* Program constants
\* ------------------------------------------------------------------------

SECONDS_PER_DAY == 86400

\* ------------------------------------------------------------------------
\* JavaScript string helpers
\* ------------------------------------------------------------------------

Digits == <<"0", "1", "2", "3", "4", "5", "6", "7", "8", "9">>

IsDigit(c) == \E i \in 1..10 : Digits[i] = c

DigitVal(c) == (CHOOSE i \in 1..10 : Digits[i] = c) - 1

RECURSIVE NatToString(_)
NatToString(n) ==
    IF n < 10 THEN <<Digits[n + 1]>>
    ELSE NatToString(n \div 10) \o <<Digits[(n % 10) + 1]>>

\* Number.prototype.toString() of an integer
NumberToString(n) ==
    IF n < 0 THEN <<"-">> \o NatToString(0 - n) ELSE NatToString(n)

\* String.prototype.padStart(targetLength, padChar) with a one-character pad
padStart(s, targetLength, padChar) ==
    IF Len(s) >= targetLength THEN s
    ELSE [i \in 1..(targetLength - Len(s)) |-> padChar] \o s

\* String.prototype.split(sep) with a one-character separator
RECURSIVE split(_, _)
split(s, sep) ==
    IF \A i \in 1..Len(s) : s[i] # sep THEN <<s>>
    ELSE LET k == CHOOSE i \in 1..Len(s) :
                     s[i] = sep /\ \A j \in 1..(i - 1) : s[j] # sep
         IN  <<SubSeq(s, 1, k - 1)>> \o split(SubSeq(s, k + 1, Len(s)), sep)

\* Array.prototype.join(sep): holes of the array join as empty strings
RECURSIVE join(_, _)
join(parts, sep) ==
    IF Len(parts) = 0 THEN <<>>
    ELSE IF Len(parts) = 1 THEN parts[1]
    ELSE parts[1] \o <<sep>> \o join(Tail(parts), sep)

\* keyParts[idx] = v on a JavaScript array (idx is 0-based); assigning past the
\* end extends the array with holes
ArraySet(parts, idx, v) ==
    IF idx + 1 <= Len(parts) THEN [parts EXCEPT ![idx + 1] = v]
    ELSE parts \o [i \in 1..(idx - Len(parts)) |-> <<>>] \o <<v>>

\* ------------------------------------------------------------------------
\* Goal snapshots
\* ------------------------------------------------------------------------

\* goal.autoratchet as a JavaScript value: a number, undefined, or some
\* other non-number (null, a string)
Num(n) == [type |-> "number", v |-> n]
Undefined == [type |-> "undefined", v |-> 0]
NullValue == [type |-> "object", v |-> 0]

\* the urgencykey the service emits for a goal:
\* frozen-rank; pledge-rank; DL<deadline, 10 digits>; pledge; slug
ServiceKey(head, losedate, slug) ==
    join(<<head, <<"P", "P", "R", "x">>,
           <<"D", "L">> \o padStart(NumberToString(losedate), 10, "0"),
           <<"P", "1", "0", "0", "5">>, slug>>, ";")

\* ------------------------------------------------------------------------
\* Autoratchet reconciler
\* ------------------------------------------------------------------------

\* toLocaleString rendering of the instant; only the instant it renders is kept
formatDueDate(losedate) == [locale |-> "en-US", instant |-> losedate]

\* typeof goal.autoratchet === 'number' && goal.autoratchet >= 0
\* variant: the >= 0 test left out
AutoratchetEnabled_anyNumber(goal) == goal.autoratchet.type = "number"

AutoratchetEnabled(goal) ==
    goal.autoratchet.type = "number" /\ goal.autoratchet.v >= 0

\* the first half of adjustForAutoratchet: safeDays and loseDate
\* variant: the days are added to the deadline
AdjustDays_later(goal) ==
    IF AutoratchetEnabled(goal)
    THEN LET autoratchet == goal.autoratchet.v + 1
             daysToSubtract == goal.safebuf - autoratchet
         IN  [safeDays |-> IF goal.safebuf < autoratchet THEN goal.safebuf
                           ELSE autoratchet,
              loseDate |-> IF goal.safebuf > autoratchet
                           THEN goal.losedate + (daysToSubtract * SECONDS_PER_DAY)
                           ELSE goal.losedate]
    ELSE [safeDays |-> goal.safebuf, loseDate |-> goal.losedate]

\* variant: safeDays is not capped (no Math.min)
AdjustDays_uncapped(goal) ==
    IF AutoratchetEnabled(goal)
    THEN LET autoratchet == goal.autoratchet.v + 1
             daysToSubtract == goal.safebuf - autoratchet
         IN  [safeDays |-> goal.safebuf,
              loseDate |-> IF goal.safebuf > autoratchet
                           THEN goal.losedate - (daysToSubtract * SECONDS_PER_DAY)
                           ELSE goal.losedate]
    ELSE [safeDays |-> goal.safebuf, loseDate |-> goal.losedate]

AdjustDays(goal) ==
    IF AutoratchetEnabled(goal)
    THEN LET autoratchet == goal.autoratchet.v + 1
             daysToSubtract == goal.safebuf - autoratchet
         IN  [safeDays |-> IF goal.safebuf < autoratchet THEN goal.safebuf
                           ELSE autoratchet,
              loseDate |-> IF goal.safebuf > autoratchet
                           THEN goal.losedate - (daysToSubtract * SECONDS_PER_DAY)
                           ELSE goal.losedate]
    ELSE [safeDays |-> goal.safebuf, loseDate |-> goal.losedate]

\* the second half: the urgencykey, rewritten when loseDate changed.
\* goal.hasKey = FALSE is a snapshot without an urgencykey string, on which
\* goal.urgencykey.split throws a TypeError.
\* variant: keyParts[3] is written in place of keyParts[2]
AdjustKey_nextSegment(goal, loseDate) ==
    IF loseDate # goal.losedate
    THEN IF ~goal.hasKey
         THEN [threw |-> TRUE, urgencykey |-> <<>>]
         ELSE LET keyParts == split(goal.urgencykey, ";")
                  seg == <<"D", "L">> \o padStart(NumberToString(loseDate), 10, "0")
              IN  [threw |-> FALSE,
                   urgencykey |-> join(ArraySet(keyParts, 3, seg), ";")]
    ELSE [threw |-> FALSE, urgencykey |-> goal.urgencykey]

AdjustKey(goal, loseDate) ==
    IF loseDate # goal.losedate
    THEN IF ~goal.hasKey
         THEN [threw |-> TRUE, urgencykey |-> <<>>]
         ELSE LET keyParts == split(goal.urgencykey, ";")
                  seg == <<"D", "L">> \o padStart(NumberToString(loseDate), 10, "0")
              IN  [threw |-> FALSE,
                   urgencykey |-> join(ArraySet(keyParts, 2, seg), ";")]
    ELSE [threw |-> FALSE, urgencykey |-> goal.urgencykey]

adjustForAutoratchet(goal) ==
    LET days == AdjustDays(goal)
        key  == AdjustKey(goal, days.loseDate)
    IN  [threw |-> key.threw,
         safeDays |-> days.safeDays,
         loseDate |-> days.loseDate,
         dueBy |-> formatDueDate(days.loseDate),
         urgencykey |-> key.urgencykey]

\* ------------------------------------------------------------------------
\* Clock and configuration
\* ------------------------------------------------------------------------

_dayStartDefault == 25200

\* a JavaScript string-or-nothing: process.env.DAY_START (undefined when the
\* variable is not set) and _dayStartString (null before the first parse)
NoString == [set |-> FALSE, str |-> <<>>]
Str(s) == [set |-> TRUE, str |-> s]

IsSpace(c) == c \in {" ", "\t"}

\* the index of the first character at or after i that \s does not match
RECURSIVE SkipSpaces(_, _)
SkipSpaces(s, i) ==
    IF i <= Len(s) /\ IsSpace(s[i]) THEN SkipSpaces(s, i + 1) ELSE i

DigitAt(s, i) == i <= Len(s) /\ IsDigit(s[i])

LowerCase(c) ==
    CASE c = "A" -> "a" [] c = "P" -> "p" [] c = "M" -> "m" [] OTHER -> c

RECURSIVE parseInt(_)
parseInt(s) ==
    IF Len(s) = 0 THEN 0
    ELSE parseInt(SubSeq(s, 1, Len(s) - 1)) * 10 + DigitVal(s[Len(s)])

NoMatch == [ok |-> FALSE, hours |-> <<>>, minutes |-> <<>>, ampm |-> <<>>]

\* how many of the characters at i, i + 1, i + 2 are a run of digits
DigitRun(s, i) ==
    IF ~DigitAt(s, i) THEN 0
    ELSE IF ~DigitAt(s, i + 1) THEN 1
    ELSE IF ~DigitAt(s, i + 2) THEN 2 ELSE 3

AmPmAt(s, i) ==
    i + 1 <= Len(s) /\ LowerCase(s[i]) \in {"a", "p"} /\ LowerCase(s[i + 1]) = "m"

\* \s*(am|pm)?\s*$ from index i, after the groups `hours` and `minutes`
MatchSuffix(s, i, hours, minutes) ==
    IF AmPmAt(s, SkipSpaces(s, i))
    THEN IF SkipSpaces(s, SkipSpaces(s, i) + 2) = Len(s) + 1
         THEN [ok |-> TRUE, hours |-> hours, minutes |-> minutes,
               ampm |-> <<LowerCase(s[SkipSpaces(s, i)]), "m">>]
         ELSE NoMatch
    ELSE IF SkipSpaces(s, i) = Len(s) + 1
         THEN [ok |-> TRUE, hours |-> hours, minutes |-> minutes, ampm |-> <<>>]
         ELSE NoMatch

\* (:(\d{2}))? and the rest from index i, after the group `hours`
MatchMinutes(s, i, hours) ==
    IF i <= Len(s) /\ s[i] = ":"
    THEN IF DigitAt(s, i + 1) /\ DigitAt(s, i + 2)
         THEN MatchSuffix(s, i + 3, hours, SubSeq(s, i + 1, i + 2))
         ELSE NoMatch
    ELSE MatchSuffix(s, i, hours, <<>>)

\* (\d{1,2}) and the rest from index i
MatchHours(s, i) ==
    IF DigitRun(s, i) \in {1, 2}
    THEN MatchMinutes(s, i + DigitRun(s, i), SubSeq(s, i, i + DigitRun(s, i) - 1))
    ELSE NoMatch

\* timeStr.match(/^\s*(\d{1,2})(:(\d{2}))?\s*(am|pm)?\s*$/i): the groups, or no
\* match.  Every group is followed by something no digit and no colon can
\* match, so the greedy reading is the only one.
DayStartMatch(s) == MatchHours(s, SkipSpaces(s, 1))

\* getDayStart(): the returned offset and the memo it leaves behind
\* hours and minutes of a match, in seconds past midnight
DayStartSecondsOf(match) ==
    (IF match.ampm = <<"p", "m">> /\ parseInt(match.hours) # 12
       THEN parseInt(match.hours) + 12
     ELSE IF match.ampm = <<"a", "m">> /\ parseInt(match.hours) = 12
       THEN 0
     ELSE parseInt(match.hours)) * 3600
    + (IF match.minutes # <<>> THEN parseInt(match.minutes) ELSE 0) * 60

getDayStart(timeStr, memoString, memoSeconds) ==
    IF ~timeStr.set \/ timeStr.str = <<>>
    THEN [ret |-> _dayStartDefault, str |-> memoString, sec |-> memoSeconds]
    ELSE IF memoString # timeStr
    THEN IF ~DayStartMatch(timeStr.str).ok
         THEN [ret |-> _dayStartDefault, str |-> timeStr,
               sec |-> _dayStartDefault]
         ELSE [ret |-> DayStartSecondsOf(DayStartMatch(timeStr.str)),
               str |-> timeStr,
               sec |-> DayStartSecondsOf(DayStartMatch(timeStr.str))]
    ELSE [ret |-> memoSeconds, str |-> memoString, sec |-> memoSeconds]

\* new Date(); setHours(0, 0, 0, 0): local midnight of the day of `clock`, for a
\* zone `zone` seconds east of UTC (no daylight-saving change, as the code's
\* comment allows)
LocalMidnight(clock, zone) == clock - ((clock + zone) % SECONDS_PER_DAY)

\* MORNING() given the offset getDayStart() returned
MORNING(clock, zone, dayStart) ==
    LocalMidnight(clock, zone) + SECONDS_PER_DAY + dayStart

\* ------------------------------------------------------------------------
\* Urgency classifier
\* ------------------------------------------------------------------------

Horizons == <<"today", "tomorrow", "committed", "calendial", "safe">>

\* the last branch of getUrgencyHorizon: the bucket by whole days left
\* variant: the threshold daysLeft <= 8 of the earlier iteration (line 398)
DaysLeftHorizon_8(losedate, clock) ==
    LET secondsLeft == losedate - clock
        daysLeft == secondsLeft \div SECONDS_PER_DAY
    IN  IF daysLeft <= 8 THEN "committed"
        ELSE IF daysLeft <= 15 THEN "calendial"
        ELSE "safe"

\* variant: the two middle labels exchanged
DaysLeftHorizon_swapped(losedate, clock) ==
    LET secondsLeft == losedate - clock
        daysLeft == secondsLeft \div SECONDS_PER_DAY
    IN  IF daysLeft <= 7 THEN "calendial"
        ELSE IF daysLeft <= 15 THEN "committed"
        ELSE "safe"

DaysLeftHorizon(losedate, clock) ==
    LET secondsLeft == losedate - clock
        daysLeft == secondsLeft \div SECONDS_PER_DAY
    IN  IF daysLeft <= 7 THEN "committed"
        ELSE IF daysLeft <= 15 THEN "calendial"
        ELSE "safe"

\* getUrgencyHorizon(losedate) at the instant `clock`: the bucket, and the
\* day-start memo its calls of MORNING() leave behind
\* variant: the day boundaries compared with <
getUrgencyHorizon_strict(losedate, clock, zone, timeStr, memoString, memoSeconds) ==
    LET d1 == getDayStart(timeStr, memoString, memoSeconds)
        d2 == getDayStart(timeStr, d1.str, d1.sec)
    IN  IF losedate < MORNING(clock, zone, d1.ret)
        THEN [horizon |-> "today", str |-> d1.str, sec |-> d1.sec]
        ELSE IF losedate < MORNING(clock, zone, d2.ret) + SECONDS_PER_DAY
        THEN [horizon |-> "tomorrow", str |-> d2.str, sec |-> d2.sec]
        ELSE [horizon |-> DaysLeftHorizon(losedate, clock),
              str |-> d2.str, sec |-> d2.sec]

getUrgencyHorizon(losedate, clock, zone, timeStr, memoString, memoSeconds) ==
    LET d1 == getDayStart(timeStr, memoString, memoSeconds)
        d2 == getDayStart(timeStr, d1.str, d1.sec)
    IN  IF losedate <= MORNING(clock, zone, d1.ret)
        THEN [horizon |-> "today", str |-> d1.str, sec |-> d1.sec]
        ELSE IF losedate <= MORNING(clock, zone, d2.ret) + SECONDS_PER_DAY
        THEN [horizon |-> "tomorrow", str |-> d2.str, sec |-> d2.sec]
        ELSE [horizon |-> DaysLeftHorizon(losedate, clock),
              str |-> d2.str, sec |-> d2.sec]

\* ------------------------------------------------------------------------
\* State
\* ------------------------------------------------------------------------

VARIABLES
    stage,              \* which operation the run has applied so far
    goal,               \* the goal snapshot handed to adjustForAutoratchet
    rec,                \* adjustForAutoratchet(goal)
    rec2,               \* adjustForAutoratchet of rec fed back in as raw fields
    now,                \* Date.now() in whole seconds
    zone,               \* the local zone, seconds east of UTC
    envDayStart,        \* process.env.DAY_START
    _dayStartString,    \* the memoised string of getDayStart
    _dayStartSeconds,   \* the memoised offset of getDayStart
    loseIn,             \* the losedate handed to getUrgencyHorizon
    horizon,            \* what getUrgencyHorizon returned for it
    pc,                 \* where the tool invocation stands
    authToken,          \* whether process.env.AUTH_TOKEN is set
    _bmndr,             \* the process-wide client handle, or "null"
    args,               \* the arguments of createAndCheckDatapoint
    bm,                 \* what `await bmndr()` gave the invocation
    datapointResult,    \* what createDatapoint resolved to
    goalStatus,         \* the last fetched goal
    polls,              \* every goal the poll loop fetched, in order
    trace,              \* the remote calls and steps of the invocation, in order
    failure,            \* the error the catch block received, and where from
    outcome,            \* how createAndCheckDatapoint ended
    invocations,        \* tool invocations started so far
    lpc,                \* where the listing invocation stands
    listTool,           \* the listing tool invoked
    lbm,                \* what `await bmndr()` gave listGoals
    goals,              \* user.goals of getUserSkinny: the lightweight goals
    details,            \* the getGoalDetails call of each goal: its locals
    listed,             \* how listGoals ended
    cpc,                \* where each concurrent caller of bmndr() stands
    received,           \* what bmndr() gave each caller
    validated,          \* whether getUser has resolved for the handle in _bmndr
    constructions,      \* beeminder(authToken) calls so far
    dayStart            \* what the last call of getDayStart() returned

reconVars == <<goal, rec, rec2>>
clockVars == <<now, zone, envDayStart, _dayStartString, _dayStartSeconds>>
classVars == <<loseIn, horizon>>
submitVars == <<pc, authToken, _bmndr, args, bm, datapointResult, goalStatus,
                polls, trace, failure, outcome, invocations>>
listVars == <<lpc, listTool, lbm, goals, details, listed>>
clientVars == <<cpc, received, validated, constructions>>
dayVars == <<dayStart>>
vars == <<stage, reconVars, clockVars, classVars, submitVars, listVars, clientVars,
         dayVars>>

\* ------------------------------------------------------------------------
\* Inputs
\* ------------------------------------------------------------------------

\* 2025-11-02T00:00:00Z
BaseDay == 20394 * 86400

Chars_gym == <<"g", "y", "m">>

KeyHeads == {<<"F", "R", "x">>, <<"F", "R", "O", "x">>}

AutoratchetValues ==
    {Undefined, NullValue} \cup {Num(n) : n \in (-1)..MaxAutoratchet}

\* deadlines of snapshots: a present-day instant and a small one, whose
\* decimal form needs padding
LoseDateInputs == {BaseDay + 50000, 1000000}

GoalSnapshot(slug, safebuf, losedate, autoratchet, head) ==
    [slug |-> slug, safebuf |-> safebuf, losedate |-> losedate,
     autoratchet |-> autoratchet, hasKey |-> TRUE,
     urgencykey |-> ServiceKey(head, losedate, slug), queued |-> FALSE]

GoalInputs ==
    {GoalSnapshot(Chars_gym, sb, ld, ar, hd) :
        sb \in (-1)..MaxSafebuf, ld \in LoseDateInputs,
        ar \in AutoratchetValues, hd \in KeyHeads}

NoGoal == GoalSnapshot(<<>>, 0, 0, Undefined, <<>>)

NoRec == [threw |-> FALSE, safeDays |-> 0, loseDate |-> 0,
          dueBy |-> formatDueDate(0), urgencykey |-> <<>>]

\* DAY_START settings, each with the time of day it stands for
DayStartSettings ==
    {[env |-> NoString, offset |-> 25200],
     [env |-> Str(<<>>), offset |-> 25200],
     [env |-> Str(<<"0">>), offset |-> 0],
     [env |-> Str(<<"9", ":", "3", "0", " ", "P", "M">>), offset |-> 77400],
     [env |-> Str(<<"1", "2", "a", "m">>), offset |-> 0],
     [env |-> Str(<<" ", "2", "3", ":", "5", "9">>), offset |-> 86340],
     [env |-> Str(<<"7", "h">>), offset |-> 25200]}

ConfiguredOffset(env) ==
    (CHOOSE c \in DayStartSettings : c.env = env).offset

ClockInputs == {BaseDay, BaseDay + 21600, BaseDay + 43200, BaseDay + 86399}

ZoneInputs == {0, 0 - 18000, 19800}

\* deadlines around the two day boundaries and on the whole-day grid
LoseDateCandidates(clock, zn, env) ==
    {LocalMidnight(clock, zn) + k * SECONDS_PER_DAY + ConfiguredOffset(env) + e :
        k \in {1, 2}, e \in {-1, 0, 1}}
    \cup {clock + d * SECONDS_PER_DAY + e : d \in 0..MaxDaysOut, e \in {-1, 0, 1}}

ClockInit ==
    /\ now \in ClockInputs
    /\ zone \in ZoneInputs
    /\ envDayStart \in {c.env : c \in DayStartSettings}
    /\ _dayStartString = NoString
    /\ _dayStartSeconds = _dayStartDefault

ClockIdle ==
    /\ now = BaseDay
    /\ zone = 0
    /\ envDayStart = NoString
    /\ _dayStartString = NoString
    /\ _dayStartSeconds = _dayStartDefault

\* no invocation yet
NoArgs == [tool |-> "none", goal_slug |-> "", value |-> 0, comment |-> "",
           timestamp |-> 0, startedAt |-> 0]

NoError == [status |-> 0, message |-> "", name |-> ""]

NoFailure == [at |-> "none", error |-> NoError]

NoOutcome == [kind |-> "none"]

NoDatapoint == [id |-> ""]

SubmitIdle ==
    /\ pc = "idle"
    /\ authToken = TRUE
    /\ _bmndr = "null"
    /\ args = NoArgs
    /\ bm = "none"
    /\ datapointResult = NoDatapoint
    /\ goalStatus = NoGoal
    /\ polls = <<>>
    /\ trace = <<>>
    /\ failure = NoFailure
    /\ outcome = NoOutcome
    /\ invocations = 0

NoListed == [kind |-> "none"]

\* no listing yet
ListIdle ==
    /\ lpc = "idle"
    /\ listTool = "none"
    /\ lbm = "none"
    /\ goals = <<>>
    /\ details = <<>>
    /\ listed = NoListed

\* getDayStart() not called yet
DayIdle == dayStart = 0

\* no concurrent callers
ClientIdle ==
    /\ cpc = <<>>
    /\ received = <<>>
    /\ validated = FALSE
    /\ constructions = 0

\* ------------------------------------------------------------------------
\* The reconciler applied to a snapshot, and again to its own output
\* ------------------------------------------------------------------------

InitReconcile ==
    /\ stage = "input"
    /\ goal \in GoalInputs
    /\ rec = NoRec
    /\ rec2 = NoRec
    /\ ClockIdle
    /\ loseIn = 0
    /\ horizon = "none"
    /\ SubmitIdle
    /\ ListIdle
    /\ DayIdle
    /\ ClientIdle

Reconcile ==
    /\ stage = "input"
    /\ rec' = adjustForAutoratchet(goal)
    /\ stage' = "once"
    /\ UNCHANGED <<dayVars, listVars, clientVars, goal, rec2, clockVars, classVars, submitVars>>

\* the output's fields fed back in as raw fields, autoratchet held fixed
FedBack(g, r) ==
    [g EXCEPT !.safebuf = r.safeDays, !.losedate = r.loseDate,
              !.urgencykey = r.urgencykey]

ReconcileAgain ==
    /\ stage = "once"
    /\ rec2' = adjustForAutoratchet(FedBack(goal, rec))
    /\ stage' = "twice"
    /\ UNCHANGED <<dayVars, listVars, clientVars, goal, rec, clockVars, classVars, submitVars>>

NextReconcile == Reconcile \/ ReconcileAgain

SpecReconcile == InitReconcile /\ [][NextReconcile]_vars

\* ------------------------------------------------------------------------
\* The classifier applied to deadlines at a fixed clock and configuration
\* ------------------------------------------------------------------------

InitClassify ==
    /\ stage = "input"
    /\ goal = NoGoal
    /\ rec = NoRec
    /\ rec2 = NoRec
    /\ ClockInit
    /\ loseIn = 0
    /\ horizon = "none"
    /\ SubmitIdle
    /\ ListIdle
    /\ DayIdle
    /\ ClientIdle

Classify ==
    \E l \in LoseDateCandidates(now, zone, envDayStart) :
        LET r == getUrgencyHorizon(l, now, zone, envDayStart,
                                   _dayStartString, _dayStartSeconds)
        IN  /\ loseIn' = l
            /\ horizon' = r.horizon
            /\ _dayStartString' = r.str
            /\ _dayStartSeconds' = r.sec
            /\ stage' = "classified"
            /\ UNCHANGED <<dayVars, listVars, clientVars, reconVars, now, zone, envDayStart, submitVars>>

NextClassify == Classify

SpecClassify == InitClassify /\ [][NextClassify]_vars

\* ------------------------------------------------------------------------
\* The record-progress coordinator: createAndCheckDatapoint and bmndr
\* ------------------------------------------------------------------------

\* await setTimeout(2000), in seconds
PollSeconds == 2

Err(status, message, name) == [status |-> status, message |-> message, name |-> name]

\* errors the remote calls reject with (status 0: the error has no status)
NotFoundError == Err(404, "Not Found", "Error")
ServerError == Err(500, "Internal Server Error", "Error")
UnauthorizedError == Err(401, "Unauthorized", "Error")
UnprocessableError == Err(422, "Unprocessable Entity", "Error")
BareError == Err(0, "", "FetchError")

\* TypeErrors the code's own expressions throw
NotAFunction == Err(0, "bm.createDatapoint is not a function", "TypeError")
NullRead == Err(0, "Cannot read properties of null (reading 'queued')", "TypeError")
SplitOfUndefined ==
    Err(0, "Cannot read properties of undefined (reading 'split')", "TypeError")

\* the two error contents bmndr() returns in place of a client
AuthTokenMissingText ==
    "Error: AUTH_TOKEN environment variable not set. Please configure your Beeminder authentication token in settings."

AuthenticationFailedText ==
    "Error: Authentication failed. Please check your configuration contains a valid Beeminder Auth Token."

GetUserErrors == {UnauthorizedError, UnprocessableError, ServerError, NotFoundError}
CreateErrors == {NotFoundError, ServerError, UnauthorizedError, BareError}
FetchErrors == {NotFoundError, ServerError}

\* goals the poll fetch may resolve to: two well-formed goals, each still
\* queued or settled, and a settled one that lacks its urgencykey
PollGoal(safebuf, losedate, autoratchet, queued, hasKey) ==
    [GoalSnapshot(Chars_gym, safebuf, losedate, autoratchet, <<"F", "R", "x">>)
        EXCEPT !.queued = queued, !.hasKey = hasKey]

PollSnapshots ==
    {PollGoal(10, BaseDay + 10 * SECONDS_PER_DAY + 3600, Num(3), q, TRUE) :
        q \in BOOLEAN}
    \cup {PollGoal(1, BaseDay + SECONDS_PER_DAY + 30000, Undefined, q, TRUE) :
        q \in BOOLEAN}
    \cup {PollGoal(10, BaseDay + 10 * SECONDS_PER_DAY + 3600, Num(3), FALSE, FALSE)}

DatapointIds == {"dp1", "dp2"}

\* the catch block of createAndCheckDatapoint
NotFoundText(goal_slug) ==
    <<"Error: Goal '", goal_slug,
      "' not found. Please check the goal slug or list your goals to find the correct identifier.">>

ErrorText(error) ==
    <<"Error: ",
      IF error.message # "" THEN error.message
      ELSE IF error.name # "" THEN error.name
      ELSE "Unknown error occurred while recording progress">>

\* variant: only the 404 is turned into a response
CatchBlock_rethrow(error, goal_slug) ==
    IF error.status = 404
    THEN [kind |-> "returned", success |-> FALSE, text |-> NotFoundText(goal_slug)]
    ELSE [kind |-> "thrown", success |-> FALSE, text |-> <<error.message>>]

CatchBlock(error, goal_slug) ==
    IF error.status = 404
    THEN [kind |-> "returned", success |-> FALSE, text |-> NotFoundText(goal_slug)]
    ELSE [kind |-> "returned", success |-> FALSE, text |-> ErrorText(error)]

\* the success return of createAndCheckDatapoint
SuccessContent(id, a, safeDays, urgencyHorizon, dueBy) ==
    [kind |-> "returned", success |-> TRUE, datapointId |-> id,
     value |-> a.value, comment |-> a.comment, safeDays |-> safeDays,
     urgencyHorizon |-> urgencyHorizon, dueBy |-> dueBy]

\* while (queued)
\* variant: the loop leaves after its first fetch
LoopContinues_never(queued) == FALSE

LoopContinues(queued) == queued

\* where the loop goes after a fetch: back to the wait, or out
\* variant: the loop gives up after its second fetch
AfterFetch_bounded(snapshot) ==
    IF LoopContinues(snapshot.queued) /\ Len(polls) < 1 THEN "wait" ELSE "settled"

\* variant: the loop fetches again without waiting
AfterFetch_noWait(snapshot) ==
    IF LoopContinues(snapshot.queued) THEN "fetch" ELSE "settled"

AfterFetch(snapshot) ==
    IF LoopContinues(snapshot.queued) THEN "wait" ELSE "settled"

\* an exception reaching the catch block ends the invocation
Caught(where, error) ==
    /\ failure' = [at |-> where, error |-> error]
    /\ outcome' = CatchBlock(error, args.goal_slug)
    /\ pc' = "done"

\* the CallToolRequestSchema handler calling createAndCheckDatapoint
Invoke ==
    /\ pc \in {"idle", "done"}
    /\ invocations < MaxInvocations
    /\ \E tool \in {"record_progress", "record_progress_for_yesterday"},
          comment \in {"", "5 km"} :
          args' = [tool |-> tool, goal_slug |-> "gym", value |-> 1,
                   comment |-> comment,
                   timestamp |-> IF tool = "record_progress" THEN now
                                 ELSE now - SECONDS_PER_DAY,
                   startedAt |-> now]
    /\ invocations' = invocations + 1
    /\ bm' = "none"
    /\ datapointResult' = NoDatapoint
    /\ goalStatus' = NoGoal
    /\ polls' = <<>>
    /\ trace' = <<>>
    /\ failure' = NoFailure
    /\ outcome' = NoOutcome
    /\ pc' = "bmndr"
    /\ UNCHANGED <<dayVars, listVars, clientVars, stage, reconVars, clockVars, classVars, authToken, _bmndr>>

\* bmndr(): the handle is already there
BmndrCached ==
    /\ pc = "bmndr"
    /\ _bmndr # "null"
    /\ bm' = _bmndr
    /\ pc' = "create"
    /\ UNCHANGED <<dayVars, listVars, clientVars, stage, reconVars, clockVars, classVars, authToken, _bmndr, args,
                   datapointResult, goalStatus, polls, trace, failure, outcome,
                   invocations>>

\* bmndr(): no AUTH_TOKEN, the error content is returned in place of a client
BmndrNoToken ==
    /\ pc = "bmndr"
    /\ _bmndr = "null"
    /\ ~authToken
    /\ bm' = "errorContent"
    /\ pc' = "create"
    /\ UNCHANGED <<dayVars, listVars, clientVars, stage, reconVars, clockVars, classVars, authToken, _bmndr, args,
                   datapointResult, goalStatus, polls, trace, failure, outcome,
                   invocations>>

\* bmndr(): _bmndr = beeminder(authToken), then await _bmndr.getUser()
BmndrConstruct ==
    /\ pc = "bmndr"
    /\ _bmndr = "null"
    /\ authToken
    /\ _bmndr' = "handle"
    /\ trace' = Append(trace, "getUser")
    /\ pc' = "validating"
    /\ UNCHANGED <<dayVars, listVars, clientVars, stage, reconVars, clockVars, classVars, authToken, args, bm,
                   datapointResult, goalStatus, polls, failure, outcome,
                   invocations>>

\* getUser() resolved: bmndr() returns the handle
GetUserOk ==
    /\ pc = "validating"
    /\ bm' = _bmndr
    /\ pc' = "create"
    /\ UNCHANGED <<dayVars, listVars, clientVars, stage, reconVars, clockVars, classVars, authToken, _bmndr, args,
                   datapointResult, goalStatus, polls, trace, failure, outcome,
                   invocations>>

\* getUser() rejected with 401 or 422: the handle is unassigned and the error
\* content is returned in place of a client
GetUserRejected ==
    /\ pc = "validating"
    /\ \E error \in GetUserErrors : error.status = 401 \/ error.status = 422
    /\ _bmndr' = "null"
    /\ bm' = "errorContent"
    /\ pc' = "create"
    /\ UNCHANGED <<dayVars, listVars, clientVars, stage, reconVars, clockVars, classVars, authToken, args,
                   datapointResult, goalStatus, polls, trace, failure, outcome,
                   invocations>>

\* getUser() rejected with anything else: bmndr() rethrows it
GetUserFails ==
    /\ pc = "validating"
    /\ \E error \in GetUserErrors :
          /\ error.status # 401 /\ error.status # 422
          /\ Caught("bmndr", error)
    /\ _bmndr' = "null"
    /\ UNCHANGED <<dayVars, listVars, clientVars, stage, reconVars, clockVars, classVars, authToken, args, bm,
                   datapointResult, goalStatus, polls, trace, invocations>>

\* bm.createDatapoint on the error content: a TypeError, no remote call
CreateWithoutClient ==
    /\ pc = "create"
    /\ bm = "errorContent"
    /\ Caught("noClient", NotAFunction)
    /\ UNCHANGED <<dayVars, listVars, clientVars, stage, reconVars, clockVars, classVars, authToken, _bmndr, args,
                   bm, datapointResult, goalStatus, polls, trace, invocations>>

\* await bm.createDatapoint(goal_slug, datapointParams) resolved
CreateDatapointOk ==
    /\ pc = "create"
    /\ bm = "handle"
    /\ \E id \in DatapointIds : datapointResult' = [id |-> id]
    /\ trace' = Append(trace, "createDatapoint")
    /\ pc' = "wait"
    /\ UNCHANGED <<dayVars, listVars, clientVars, stage, reconVars, clockVars, classVars, authToken, _bmndr, args,
                   bm, goalStatus, polls, failure, outcome, invocations>>

\* await bm.createDatapoint(goal_slug, datapointParams) rejected
CreateDatapointFails ==
    /\ pc = "create"
    /\ bm = "handle"
    /\ \E error \in CreateErrors : Caught("createDatapoint", error)
    /\ trace' = Append(trace, "createDatapoint")
    /\ UNCHANGED <<dayVars, listVars, clientVars, stage, reconVars, clockVars, classVars, authToken, _bmndr, args,
                   bm, datapointResult, goalStatus, polls, invocations>>

\* await setTimeout(2000)
Wait ==
    /\ pc = "wait"
    /\ Len(polls) < MaxPolls
    /\ now' = now + PollSeconds
    /\ trace' = Append(trace, "wait")
    /\ pc' = "fetch"
    /\ UNCHANGED <<dayVars, listVars, clientVars, stage, reconVars, zone, envDayStart, _dayStartString,
                   _dayStartSeconds, classVars, authToken, _bmndr, args, bm,
                   datapointResult, goalStatus, polls, failure, outcome,
                   invocations>>

\* goalStatus = await getEmaciatedGoal(bm, goal_slug); queued = goalStatus.queued
FetchGoal ==
    /\ pc = "fetch"
    /\ Len(polls) < MaxPolls
    /\ \E snapshot \in PollSnapshots :
          /\ goalStatus' = snapshot
          /\ polls' = Append(polls, snapshot)
          /\ pc' = AfterFetch(snapshot)
    /\ trace' = Append(trace, "getGoal")
    /\ UNCHANGED <<dayVars, listVars, clientVars, stage, reconVars, clockVars, classVars, authToken, _bmndr, args,
                   bm, datapointResult, failure, outcome, invocations>>

\* the fetch resolved to null: goalStatus.queued throws
FetchNull ==
    /\ pc = "fetch"
    /\ Caught("getGoal", NullRead)
    /\ trace' = Append(trace, "getGoal")
    /\ UNCHANGED <<dayVars, listVars, clientVars, stage, reconVars, clockVars, classVars, authToken, _bmndr, args,
                   bm, datapointResult, goalStatus, polls, invocations>>

\* the fetch rejected
FetchFails ==
    /\ pc = "fetch"
    /\ \E error \in FetchErrors : Caught("getGoal", error)
    /\ trace' = Append(trace, "getGoal")
    /\ UNCHANGED <<dayVars, listVars, clientVars, stage, reconVars, clockVars, classVars, authToken, _bmndr, args,
                   bm, datapointResult, goalStatus, polls, invocations>>

\* after the loop: adjustForAutoratchet( goalStatus ) throws on the missing key
SettleThrows ==
    /\ pc = "settled"
    /\ adjustForAutoratchet(goalStatus).threw
    /\ Caught("reconcile", SplitOfUndefined)
    /\ trace' = Append(trace, "reconcile")
    /\ UNCHANGED <<dayVars, listVars, clientVars, stage, reconVars, clockVars, classVars, authToken, _bmndr, args,
                   bm, datapointResult, goalStatus, polls, invocations>>

\* what getUrgencyHorizon gives for the reconciled deadline of a goal
HorizonOfGoal(g) ==
    getUrgencyHorizon(adjustForAutoratchet(g).loseDate, now, zone, envDayStart,
                      _dayStartString, _dayStartSeconds)

\* after the loop: adjustForAutoratchet, getUrgencyHorizon, and the return
Settle ==
    /\ pc = "settled"
    /\ ~adjustForAutoratchet(goalStatus).threw
    /\ outcome' = SuccessContent(datapointResult.id, args,
                                 adjustForAutoratchet(goalStatus).safeDays,
                                 HorizonOfGoal(goalStatus).horizon,
                                 adjustForAutoratchet(goalStatus).dueBy)
    /\ _dayStartString' = HorizonOfGoal(goalStatus).str
    /\ _dayStartSeconds' = HorizonOfGoal(goalStatus).sec
    /\ trace' = trace \o <<"reconcile", "classify">>
    /\ pc' = "done"
    /\ UNCHANGED <<dayVars, listVars, clientVars, stage, reconVars, now, zone, envDayStart, classVars, authToken,
                   _bmndr, args, bm, datapointResult, goalStatus, polls, failure,
                   invocations>>

InitSubmit ==
    /\ stage = "input"
    /\ goal = NoGoal
    /\ rec = NoRec
    /\ rec2 = NoRec
    /\ now \in {BaseDay + 21600, BaseDay + SECONDS_PER_DAY - 3}
    /\ zone = 0
    /\ envDayStart \in {NoString, Str(<<"9", ":", "3", "0", " ", "P", "M">>)}
    /\ _dayStartString = NoString
    /\ _dayStartSeconds = _dayStartDefault
    /\ loseIn = 0
    /\ horizon = "none"
    /\ pc = "idle"
    /\ authToken \in BOOLEAN
    /\ _bmndr = "null"
    /\ args = NoArgs
    /\ bm = "none"
    /\ datapointResult = NoDatapoint
    /\ goalStatus = NoGoal
    /\ polls = <<>>
    /\ trace = <<>>
    /\ failure = NoFailure
    /\ outcome = NoOutcome
    /\ invocations = 0
    /\ ListIdle
    /\ DayIdle
    /\ ClientIdle

NextSubmit ==
    \/ Invoke
    \/ BmndrCached
    \/ BmndrNoToken
    \/ BmndrConstruct
    \/ GetUserOk
    \/ GetUserRejected
    \/ GetUserFails
    \/ CreateWithoutClient
    \/ CreateDatapointOk
    \/ CreateDatapointFails
    \/ Wait
    \/ FetchGoal
    \/ FetchNull
    \/ FetchFails
    \/ SettleThrows
    \/ Settle

SpecSubmit == InitSubmit /\ [][NextSubmit]_vars

\* ------------------------------------------------------------------------
\* Claims about the reconciler (checked under SpecReconcile)
\* ------------------------------------------------------------------------

IsDeadlineSegment(seg) == Len(seg) >= 2 /\ seg[1] = "D" /\ seg[2] = "L"

\* seg is "DL" followed by exactly ten decimal digits whose value is l
EncodesDeadline(seg, l) ==
    /\ Len(seg) = 12
    /\ IsDeadlineSegment(seg)
    /\ \A i \in 3..12 : IsDigit(seg[i])
    /\ parseInt(SubSeq(seg, 3, 12)) = l

\* newKey is oldKey with its DL segment replaced by the encoding of l and
\* every other segment as it was
DeadlineSegmentRewritten(oldKey, newKey, l) ==
    /\ Len(split(newKey, ";")) = Len(split(oldKey, ";"))
    /\ \E i \in 1..Len(split(oldKey, ";")) : IsDeadlineSegment(split(oldKey, ";")[i])
    /\ \A i \in 1..Len(split(oldKey, ";")) :
          IF IsDeadlineSegment(split(oldKey, ";")[i])
          THEN EncodesDeadline(split(newKey, ";")[i], l)
          ELSE split(newKey, ";")[i] = split(oldKey, ";")[i]

\* the goal's autoratchet is a non-negative number and safebuf is above the cap
AboveCap(g) ==
    /\ g.autoratchet.type = "number"
    /\ g.autoratchet.v >= 0
    /\ g.safebuf > g.autoratchet.v + 1

\* C1: for a snapshot whose autoratchet is a non-negative number and whose
\* safebuf is above cap = autoratchet + 1, the reconciler returns
\* safeDays = cap, loseDate = losedate - (safebuf - cap) * 86400, and the
\* urgencykey with its DL segment replaced by "DL" and the new loseDate
\* zero-padded to ten digits, every other segment unchanged.
C1_TightenedAboveCap ==
    (stage # "input" /\ AboveCap(goal)) =>
        /\ ~rec.threw
        /\ rec.safeDays = goal.autoratchet.v + 1
        /\ rec.loseDate = goal.losedate
               - (goal.safebuf - (goal.autoratchet.v + 1)) * 86400
        /\ DeadlineSegmentRewritten(goal.urgencykey, rec.urgencykey, rec.loseDate)

\* the example of the claim: safebuf 10, autoratchet 3, on a deadline whose
\* adjusted value needs padding
C1_Witness ==
    /\ stage = "once"
    /\ goal.safebuf = 10
    /\ goal.autoratchet = Num(3)
    /\ goal.losedate = 1000000
    /\ rec.safeDays = 4
    /\ rec.loseDate = 1000000 - 6 * 86400
    /\ split(rec.urgencykey, ";")[3]
         = <<"D", "L", "0", "0", "0", "0", "4", "8", "1", "6", "0", "0">>

\* C2: for a snapshot whose autoratchet is undefined, not a number, or
\* negative, the reconciler returns safebuf, losedate and urgencykey as
\* they came.
C2_IdentityWhenDisabled ==
    (stage # "input" /\ (goal.autoratchet.type # "number" \/ goal.autoratchet.v < 0)) =>
        /\ ~rec.threw
        /\ rec.safeDays = goal.safebuf
        /\ rec.loseDate = goal.losedate
        /\ rec.urgencykey = goal.urgencykey

C2_Witness ==
    /\ stage = "once"
    /\ goal.autoratchet = Num(-1)
    /\ goal.safebuf = 10
    /\ rec.safeDays = 10
    /\ rec.loseDate = goal.losedate

\* C3: the reconciled safeDays never exceeds the raw safebuf and the
\* reconciled loseDate is never later than the raw losedate.
C3_NeverLooser ==
    stage # "input" => (rec.safeDays <= goal.safebuf /\ rec.loseDate <= goal.losedate)

C3_Witness ==
    /\ stage = "once"
    /\ rec.safeDays < goal.safebuf
    /\ rec.loseDate < goal.losedate

\* C4: reconciling the reconciler's own output (fed back in as the raw
\* safebuf, losedate and urgencykey, autoratchet held fixed) changes nothing.
C4_Idempotent ==
    stage = "twice" =>
        /\ rec2.threw = rec.threw
        /\ rec2.safeDays = rec.safeDays
        /\ rec2.loseDate = rec.loseDate
        /\ rec2.urgencykey = rec.urgencykey

C4_Witness ==
    /\ stage = "twice"
    /\ AboveCap(goal)
    /\ rec.loseDate < goal.losedate
    /\ rec2.loseDate = rec.loseDate

\* ------------------------------------------------------------------------
\* Claims about the classifier (checked under SpecClassify)
\* ------------------------------------------------------------------------

\* the next occurrence of the configured day start after the coming local
\* midnight, from the configured time of day
MorningOfState ==
    LocalMidnight(now, zone) + 86400 + ConfiguredOffset(envDayStart)

\* LocalMidnight is the start of the local day that holds the clock
MidnightIsLocalDayStart ==
    /\ (LocalMidnight(now, zone) + zone) % 86400 = 0
    /\ LocalMidnight(now, zone) <= now
    /\ now < LocalMidnight(now, zone) + 86400

Rank(h) == CHOOSE i \in 1..5 : Horizons[i] = h

HorizonNow(l) ==
    getUrgencyHorizon(l, now, zone, envDayStart,
                      _dayStartString, _dayStartSeconds).horizon

\* C5: with morning = start of the local day of now + 86400 + day-start
\* offset, the bucket is "today" exactly when loseDate <= morning and
\* "tomorrow" exactly when morning < loseDate <= morning + 86400; with the
\* default 07:00 and now = 06:00, 07:00 tomorrow is "today" and one second
\* later is "tomorrow".
C5_DayBoundaries ==
    horizon # "none" =>
        /\ MidnightIsLocalDayStart
        /\ (horizon = "today") <=> (loseIn <= MorningOfState)
        /\ (horizon = "tomorrow") <=>
              (MorningOfState < loseIn /\ loseIn <= MorningOfState + 86400)
        /\ (envDayStart = NoString /\ zone = 0 /\ now = BaseDay + 6 * 3600) =>
              /\ (loseIn = BaseDay + 86400 + 7 * 3600) => horizon = "today"
              /\ (loseIn = BaseDay + 86400 + 7 * 3600 + 1) => horizon = "tomorrow"

C5_Witness ==
    /\ envDayStart = NoString
    /\ zone = 0
    /\ now = BaseDay + 6 * 3600
    /\ loseIn = BaseDay + 86400 + 7 * 3600
    /\ horizon = "today"

\* C6: for a loseDate later than morning + 86400, with
\* daysLeft = floor((loseDate - now) / 86400), the bucket is "committed" when
\* daysLeft <= 7, "calendial" when 8 <= daysLeft <= 15 and "safe" when
\* daysLeft >= 16.
C6_DaysLeftBuckets ==
    (horizon # "none" /\ loseIn > MorningOfState + 86400) =>
        /\ ((loseIn - now) \div 86400 <= 7) => horizon = "committed"
        /\ ((loseIn - now) \div 86400 \in 8..15) => horizon = "calendial"
        /\ ((loseIn - now) \div 86400 >= 16) => horizon = "safe"

C6_Witness ==
    /\ horizon = "calendial"
    /\ loseIn > MorningOfState + 86400
    /\ loseIn = now + 8 * 86400

\* C7: for a fixed clock and day-start setting every loseDate gets exactly
\* one of the five buckets, evaluating it again gives the same bucket, and
\* a later loseDate never gets an earlier bucket in the order
\* today < tomorrow < committed < calendial < safe.
C7_TotalOrderPreserving ==
    horizon # "none" =>
        /\ \E i \in 1..5 : Horizons[i] = horizon
        /\ HorizonNow(loseIn) = horizon
        /\ \A l \in LoseDateCandidates(now, zone, envDayStart) :
              /\ \E i \in 1..5 : Horizons[i] = HorizonNow(l)
              /\ (loseIn <= l) => Rank(horizon) <= Rank(HorizonNow(l))
              /\ (l <= loseIn) => Rank(HorizonNow(l)) <= Rank(horizon)

C7_Witness ==
    /\ horizon = "committed"
    /\ _dayStartString # NoString
    /\ \E l \in LoseDateCandidates(now, zone, envDayStart) :
          l > loseIn /\ HorizonNow(l) = "calendial"

\* ------------------------------------------------------------------------
\* Claims about the record-progress coordinator (checked under SpecSubmit)
\* ------------------------------------------------------------------------

Count(seq, e) == Cardinality({i \in 1..Len(seq) : seq[i] = e})

Succeeded == outcome.kind = "returned" /\ outcome.success

LastPoll == polls[Len(polls)]

\* C8: the coordinator fetches exactly k times, where the k-th fetched goal is
\* the first one that is not queued, and the returned safe days, urgency
\* horizon and due date are the reconciled and classified values of that
\* k-th goal, with the id the submission returned; no status comes from a
\* goal that is still queued.
C8_SettledSnapshotReported ==
    /\ \A i \in 1..(Len(polls) - 1) : polls[i].queued
    /\ Succeeded =>
          /\ Len(polls) >= 1
          /\ ~LastPoll.queued
          /\ Count(trace, "getGoal") = Len(polls)
          /\ outcome.safeDays = adjustForAutoratchet(LastPoll).safeDays
          /\ outcome.dueBy = adjustForAutoratchet(LastPoll).dueBy
          /\ outcome.urgencyHorizon = HorizonNow(adjustForAutoratchet(LastPoll).loseDate)
          /\ outcome.datapointId = datapointResult.id
          /\ datapointResult.id \in DatapointIds

\* the example of the claim: queued, queued, settled gives three fetches and
\* the status of the third goal (safebuf 10 capped at 4, six days earlier)
C8_Witness ==
    /\ Succeeded
    /\ Len(polls) = 3
    /\ polls[1].queued /\ polls[1].safebuf = 10
    /\ polls[2].queued /\ polls[2].safebuf = 1
    /\ ~polls[3].queued /\ polls[3].safebuf = 10
    /\ Count(trace, "getGoal") = 3
    /\ outcome.safeDays = 4
    /\ outcome.urgencyHorizon = "committed"
    /\ outcome.dueBy = formatDueDate(BaseDay + 4 * 86400 + 3600)
    /\ outcome.datapointId = "dp2"

\* C9 as stated: every record-progress invocation issues exactly one
\* createDatapoint write.
C9_ExactlyOneWrite ==
    pc = "done" => Count(trace, "createDatapoint") = 1

PollSteps == {"wait", "getGoal"}

FinalSteps == {"reconcile", "classify"}

\* C9 as amended: an invocation issues at most one createDatapoint write,
\* exactly one once it holds a client handle, and none when the client
\* could not be obtained; the write precedes every wait and fetch and is
\* never retried; when it fails there is no wait and no fetch and the error
\* outcome is returned; every fetch directly follows one 2-second wait; and
\* reconcile and classify run only after the last fetch.
C9_SequentialSteps ==
    /\ Count(trace, "createDatapoint") <= 1
    /\ (pc \in {"wait", "fetch", "settled"} \/ (pc = "done" /\ bm = "handle"))
          => Count(trace, "createDatapoint") = 1
    /\ (pc = "done" /\ bm # "handle") => Count(trace, "createDatapoint") = 0
    /\ \A i \in 1..Len(trace) :
          trace[i] \in PollSteps \cup FinalSteps =>
              \E j \in 1..(i - 1) : trace[j] = "createDatapoint"
    /\ failure.at = "createDatapoint" =>
          /\ Count(trace, "wait") = 0
          /\ Count(trace, "getGoal") = 0
          /\ trace[Len(trace)] = "createDatapoint"
          /\ pc = "done"
          /\ outcome.kind = "returned" /\ ~outcome.success
    /\ \A i \in 1..Len(trace) :
          trace[i] = "getGoal" => (i > 1 /\ trace[i - 1] = "wait")
    /\ \A i \in 1..(Len(trace) - 1) :
          trace[i] = "wait" => trace[i + 1] = "getGoal"
    /\ pc # "idle" => now = args.startedAt + 2 * Count(trace, "wait")
    /\ \A i \in 1..Len(trace) :
          trace[i] \in FinalSteps =>
              \A j \in (i + 1)..Len(trace) : trace[j] \in FinalSteps
    /\ \A i \in 1..Len(trace) :
          trace[i] = "classify" => (i > 1 /\ trace[i - 1] = "reconcile")

C9_Witness ==
    /\ pc = "done"
    /\ Succeeded
    /\ trace = <<"getUser", "createDatapoint", "wait", "getGoal", "wait", "getGoal",
                 "reconcile", "classify">>

\* C10: no error leaves createAndCheckDatapoint: a 404 gives the
\* goal-not-found message naming the slug, any other error a response with
\* the error's message, and the call always returns a response.
C10_ErrorsBecomeResponses ==
    /\ outcome.kind \in {"none", "returned"}
    /\ pc = "done" => outcome.kind = "returned"
    /\ failure.at # "none" =>
          /\ pc = "done"
          /\ outcome.kind = "returned" /\ ~outcome.success
          /\ failure.error.status = 404 =>
                outcome.text = <<"Error: Goal '", args.goal_slug,
                    "' not found. Please check the goal slug or list your goals to find the correct identifier.">>
          /\ (failure.error.status # 404 /\ failure.error.message # "") =>
                outcome.text = <<"Error: ", failure.error.message>>

C10_Witness ==
    /\ pc = "done"
    /\ failure.at = "getGoal"
    /\ failure.error.status = 500
    /\ Len(polls) = 1
    /\ outcome.kind = "returned"
    /\ outcome.text = <<"Error: ", "Internal Server Error">>

\* C11: when the credential is missing or rejected (no token, or validation
\* fails with 401/422), the invocation returns the message telling the
\* caller to fix the authentication configuration, without a retry and
\* without a further remote call.
C11_AuthMessageReturned ==
    (pc = "done" /\ bm = "errorContent") =>
        /\ outcome.kind = "returned"
        /\ outcome.text \in {<<AuthTokenMissingText>>, <<AuthenticationFailedText>>}
        /\ Count(trace, "getUser") <= 1
        /\ \A i \in 1..Len(trace) : trace[i] = "getUser"

\* ------------------------------------------------------------------------
\* Listing: comparing and sorting urgencykeys
\* ------------------------------------------------------------------------

LowerLetters == <<"a", "b", "c", "d", "e", "f", "g", "h", "i", "j", "k", "l", "m",
                  "n", "o", "p", "q", "r", "s", "t", "u", "v", "w", "x", "y", "z">>

UpperLetters == <<"A", "B", "C", "D", "E", "F", "G", "H", "I", "J", "K", "L", "M",
                  "N", "O", "P", "Q", "R", "S", "T", "U", "V", "W", "X", "Y", "Z">>

IndexIn(seq, c) == CHOOSE i \in 1..Len(seq) : seq[i] = c

IsIn(seq, c) == \E i \in 1..Len(seq) : seq[i] = c

\* the characters of urgencykeys in the order of the root collation that
\* String.prototype.localeCompare applies: punctuation (_ - ;) before the
\* digits, the digits before the letters, a letter's two cases together
PunctuationOrder == <<"_", "-", ";">>

PrimaryWeight(c) ==
    IF IsIn(PunctuationOrder, c) THEN IndexIn(PunctuationOrder, c)
    ELSE IF IsIn(Digits, c) THEN Len(PunctuationOrder) + IndexIn(Digits, c)
    ELSE IF IsIn(LowerLetters, c)
    THEN Len(PunctuationOrder) + Len(Digits) + IndexIn(LowerLetters, c)
    ELSE Len(PunctuationOrder) + Len(Digits) + IndexIn(UpperLetters, c)

\* the case level of the collation: lower case first
TertiaryWeight(c) == IF IsIn(UpperLetters, c) THEN 1 ELSE 0

\* -1, 0 or 1: the first difference of two sequences of weights, a proper
\* prefix before the longer sequence
CompareWeights(x, y) ==
    LET differ == {i \in 1..Len(x) : i <= Len(y) /\ x[i] # y[i]}
    IN  IF differ # {}
        THEN LET k == CHOOSE i \in differ : \A j \in differ : i <= j
             IN  IF x[k] < y[k] THEN -1 ELSE 1
        ELSE IF Len(x) < Len(y) THEN -1
        ELSE IF Len(x) > Len(y) THEN 1
        ELSE 0

\* a.localeCompare(b): the letters and digits first, the case second
localeCompare(a, b) ==
    LET primary == CompareWeights([i \in 1..Len(a) |-> PrimaryWeight(a[i])],
                                  [i \in 1..Len(b) |-> PrimaryWeight(b[i])])
    IN  IF primary # 0 THEN primary
        ELSE CompareWeights([i \in 1..Len(a) |-> TertiaryWeight(a[i])],
                            [i \in 1..Len(b) |-> TertiaryWeight(b[i])])

\* the comparator handed to Array.prototype.sort
KeyCompare(a, b) == localeCompare(a.urgencykey, b.urgencykey)

\* Array.prototype.sort(KeyCompare), which is stable: each element goes
\* behind the elements that do not compare greater than it
RECURSIVE SortGoals(_)
SortGoals(seq) ==
    IF Len(seq) <= 1 THEN seq
    ELSE LET front == SortGoals(SubSeq(seq, 1, Len(seq) - 1))
             x == seq[Len(seq)]
             k == Cardinality({i \in 1..Len(front) : KeyCompare(front[i], x) <= 0})
         IN  SubSeq(front, 1, k) \o <<x>> \o SubSeq(front, k + 1, Len(front))

\* ------------------------------------------------------------------------
\* Listing: the goals of the account and getGoalDetails
\* ------------------------------------------------------------------------

NoDatapointYet == [present |-> FALSE, timestamp |-> 0]

LastDatapoint(ts) == [present |-> TRUE, timestamp |-> ts]

\* a goal as the service projects it: the fields of a snapshot, its last
\* datapoint, its current value and its fine print
ListedGoal(slug, safebuf, losedate, autoratchet, last, curval) ==
    [slug |-> slug, safebuf |-> safebuf, losedate |-> losedate,
     autoratchet |-> autoratchet, hasKey |-> TRUE,
     urgencykey |-> ServiceKey(<<"F", "R", "x">>, losedate, slug),
     queued |-> FALSE, last_datapoint |-> last, curval |-> curval,
     fineprint |-> "no excuses"]

\* the instant of the listings
ListClock == BaseDay + 21600

\* touched an hour ago, a week of buffer above the cap of its autoratchet
Goal_gym ==
    ListedGoal(<<"g", "y", "m">>, 10, BaseDay + 10 * SECONDS_PER_DAY + 50000, Num(3),
               LastDatapoint(ListClock - 3600), 5)

\* touched an hour ago and due today
Goal_bike ==
    ListedGoal(<<"b", "i", "k", "e">>, 0, BaseDay + 80000, Num(0),
               LastDatapoint(ListClock - 3600), 2)

\* touched a minute ago, two weeks out
Goal_read ==
    ListedGoal(<<"r", "e", "a", "d">>, 14, BaseDay + 14 * SECONDS_PER_DAY + 50000,
               Undefined, LastDatapoint(ListClock - 60), 40)

\* its last datapoint is dated a whole day back, as
\* record_progress_for_yesterday dates it; buffer above the cap
Goal_run ==
    ListedGoal(<<"r", "u", "n">>, 10, BaseDay + 10 * SECONDS_PER_DAY + 50000, Num(3),
               LastDatapoint(ListClock - SECONDS_PER_DAY), 7)

\* never touched, due today
Goal_eep ==
    ListedGoal(<<"e", "e", "p">>, 0, BaseDay + 80000, Undefined, NoDatapointYet, 0)

\* never touched, due tomorrow evening, one safe day
Goal_tmw ==
    ListedGoal(<<"t", "m", "w">>, 1, BaseDay + SECONDS_PER_DAY + 80000, Undefined,
               NoDatapointYet, 0)

\* never touched, nine days out
Goal_cal ==
    ListedGoal(<<"c", "a", "l">>, 9, BaseDay + 9 * SECONDS_PER_DAY + 50000, Undefined,
               NoDatapointYet, 3)

\* two goals with one deadline and one pledge, their slugs apart at _ and 1
Goal_a_b ==
    ListedGoal(<<"a", "_", "b">>, 3, BaseDay + 3 * SECONDS_PER_DAY + 50000, Undefined,
               NoDatapointYet, 1)

Goal_a1b ==
    ListedGoal(<<"a", "1", "b">>, 3, BaseDay + 3 * SECONDS_PER_DAY + 50000, Undefined,
               NoDatapointYet, 1)

\* user.goals of getUserSkinny, in the order the service sends them
GoalLists ==
    {<<>>,
     <<Goal_eep, Goal_run, Goal_bike>>,
     <<Goal_cal, Goal_tmw, Goal_eep>>,
     <<Goal_a1b, Goal_a_b, Goal_tmw>>,
     <<Goal_read, Goal_gym, Goal_bike>>}

\* what the service has for a goal when its full projection is fetched: the
\* goal as listed, or the goal a datapoint later (a week more of buffer)
Later(g) ==
    [g EXCEPT !.safebuf = g.safebuf + 7,
              !.losedate = g.losedate + 7 * SECONDS_PER_DAY,
              !.urgencykey = ServiceKey(<<"F", "R", "x">>,
                                        g.losedate + 7 * SECONDS_PER_DAY, g.slug),
              !.curval = g.curval + 1,
              !.fineprint = "weekends off"]

FullProjections(g) == {g, Later(g)}

\* variant: a datapoint exactly a day old still counts as recent
needsAutoratchetCheck_inclusive(g, clock) ==
    /\ g.last_datapoint.present
    /\ g.last_datapoint.timestamp # 0
    /\ (clock - g.last_datapoint.timestamp) <= SECONDS_PER_DAY

needsAutoratchetCheck(g, clock) ==
    /\ g.last_datapoint.present
    /\ g.last_datapoint.timestamp # 0
    /\ (clock - g.last_datapoint.timestamp) < SECONDS_PER_DAY

\* the object getGoalDetails returns, before any fine print
ProcessedGoal(g, safeDays, loseDate, urgencykey, hz) ==
    [urgency_horizon |-> hz,
     due_by |-> formatDueDate(loseDate),
     safe_days |-> safeDays,
     safebuf |-> safeDays,
     current_value |-> g.curval,
     urgencykey |-> urgencykey,
     slug |-> g.slug,
     hasFineprint |-> FALSE,
     fineprint |-> ""]

NoProcessedGoal ==
    [urgency_horizon |-> "none", due_by |-> formatDueDate(0), safe_days |-> 0,
     safebuf |-> 0, current_value |-> 0, urgencykey |-> <<>>, slug |-> <<>>,
     hasFineprint |-> FALSE, fineprint |-> ""]

ListingTools == {"list_goals", "beemergencies", "calendial"}

\* variant: beemergencies also takes the goals with one safe day
urgencyFilter_oneDay(tool, pg) ==
    IF tool = "beemergencies" THEN pg.safe_days <= 1
    ELSE IF tool = "calendial" THEN pg.urgency_horizon = "calendial"
    ELSE TRUE

\* the urgencyFilter each listing tool hands to listGoals (none: every goal)
urgencyFilter(tool, pg) ==
    IF tool = "beemergencies" THEN pg.safe_days = 0
    ELSE IF tool = "calendial" THEN pg.urgency_horizon = "calendial"
    ELSE TRUE

needsFullDataFilter(tool, pg) ==
    IF tool = "list_goals" THEN FALSE ELSE urgencyFilter(tool, pg)

\* the locals of one getGoalDetails call at its start
StartOfDetails(g) ==
    [pc |-> "start",
     safeDays |-> g.safebuf,
     loseDate |-> g.losedate,
     urgencykey |-> g.urgencykey,
     goalData |-> g,
     alreadyHaveFullData |-> FALSE,
     processedGoal |-> NoProcessedGoal,
     fetches |-> <<>>]

NeedsSecondFetch(shouldGetFullData, alreadyHaveFullData) ==
    shouldGetFullData /\ ~alreadyHaveFullData

\* the end of getGoalDetails: the fine print of the full data, if there is any
ReturnDetails(b) ==
    IF b.alreadyHaveFullData
    THEN [b EXCEPT !.pc = "done",
                   !.processedGoal.hasFineprint = TRUE,
                   !.processedGoal.fineprint = b.goalData.fineprint]
    ELSE [b EXCEPT !.pc = "done"]

\* getUrgencyHorizon(loseDate) in the current state
HorizonAt(loseDate) ==
    getUrgencyHorizon(loseDate, now, zone, envDayStart, _dayStartString,
                      _dayStartSeconds)

\* from the construction of processedGoal to the second fetch, or the return
BuildDetails(b, g, tool) ==
    LET pg == ProcessedGoal(g, b.safeDays, b.loseDate, b.urgencykey,
                            HorizonAt(b.loseDate).horizon)
    IN  IF NeedsSecondFetch(needsFullDataFilter(tool, pg), b.alreadyHaveFullData)
        THEN [b EXCEPT !.pc = "fetch2", !.processedGoal = pg,
                       !.fetches = Append(b.fetches, "second")]
        ELSE ReturnDetails([b EXCEPT !.processedGoal = pg])

\* the synchronous start of getGoalDetails: up to its first await, or its end
StartDetails(g, tool) ==
    IF needsAutoratchetCheck(g, now)
    THEN [StartOfDetails(g) EXCEPT !.pc = "fetch1", !.fetches = <<"first">>]
    ELSE BuildDetails(StartOfDetails(g), g, tool)

\* the first fetch resolved: reconcile the full data inside the try block
AfterFirstFetch(b, g, full, tool) ==
    LET adjusted == adjustForAutoratchet(full)
        fetched == [b EXCEPT !.goalData = full, !.alreadyHaveFullData = TRUE,
                             !.fetches = Append(b.fetches, "ok")]
    IN  IF adjusted.threw THEN BuildDetails(fetched, g, tool)
        ELSE BuildDetails([fetched EXCEPT !.safeDays = adjusted.safeDays,
                                          !.loseDate = adjusted.loseDate,
                                          !.urgencykey = adjusted.urgencykey],
                          g, tool)

\* variant: the failure leaves the goal without its buffer and deadline
AfterFirstFetchFails_blank(b, g, tool) ==
    BuildDetails([b EXCEPT !.safeDays = 0, !.loseDate = 0,
                           !.fetches = Append(b.fetches, "failed")], g, tool)

\* the first fetch rejected: the catch logs it and the lightweight values stay
AfterFirstFetchFails(b, g, tool) ==
    BuildDetails([b EXCEPT !.fetches = Append(b.fetches, "failed")], g, tool)

\* the second fetch resolved
AfterSecondFetch(b, full) ==
    ReturnDetails([b EXCEPT !.goalData = full, !.alreadyHaveFullData = TRUE,
                            !.fetches = Append(b.fetches, "ok")])

\* the second fetch rejected
AfterSecondFetchFails(b) ==
    ReturnDetails([b EXCEPT !.fetches = Append(b.fetches, "failed")])

\* ------------------------------------------------------------------------
\* Listing: listGoals
\* ------------------------------------------------------------------------

NoClientForListing == Err(0, "bm.getUserSkinny is not a function", "TypeError")

SkinnyErrors == {ServerError, BareError, Err(0, "", "")}

\* the catch block of listGoals
ListErrorText(error) ==
    <<"Error: ",
      IF error.message # "" THEN error.message
      ELSE IF error.name # "" THEN error.name
      ELSE "Unknown error occurred while fetching goals">>

ListCaught(error) ==
    /\ listed' = [kind |-> "returned", isError |-> TRUE,
                  text |-> ListErrorText(error), count |-> 0, goals |-> <<>>]
    /\ lpc' = "done"

\* Array.prototype.filter(urgencyFilter)
FilterGoals(seq, tool) == SelectSeq(seq, LAMBDA pg : urgencyFilter(tool, pg))

\* goalsWithStatus once every getGoalDetails call has returned
GoalsWithStatus == [i \in 1..Len(details) |-> details[i].processedGoal]

\* the filter, the sort and the content listGoals returns
ListContent(goalsWithStatus, tool) ==
    [kind |-> "returned", isError |-> FALSE, text |-> <<>>,
     count |-> Len(FilterGoals(goalsWithStatus, tool)),
     goals |-> SortGoals(FilterGoals(goalsWithStatus, tool))]

\* the CallToolRequestSchema handler calling listGoals
ListInvoke ==
    /\ lpc = "idle"
    /\ listTool' \in ListingTools
    /\ lpc' = "bmndr"
    /\ UNCHANGED <<dayVars, stage, reconVars, clockVars, classVars, submitVars, clientVars,
                   lbm, goals, details, listed>>

\* bmndr() with the handle there already
ListBmndrCached ==
    /\ lpc = "bmndr"
    /\ _bmndr # "null"
    /\ lbm' = _bmndr
    /\ lpc' = "getUserSkinny"
    /\ UNCHANGED <<dayVars, stage, reconVars, clockVars, classVars, submitVars, clientVars,
                   listTool, goals, details, listed>>

\* bmndr() without AUTH_TOKEN: the error content in place of a client
ListBmndrNoToken ==
    /\ lpc = "bmndr"
    /\ _bmndr = "null"
    /\ ~authToken
    /\ lbm' = "errorContent"
    /\ lpc' = "getUserSkinny"
    /\ UNCHANGED <<dayVars, stage, reconVars, clockVars, classVars, submitVars, clientVars,
                   listTool, goals, details, listed>>

\* bmndr(): _bmndr = beeminder(authToken), then await _bmndr.getUser()
ListBmndrConstruct ==
    /\ lpc = "bmndr"
    /\ _bmndr = "null"
    /\ authToken
    /\ _bmndr' = "handle"
    /\ lpc' = "validating"
    /\ UNCHANGED <<dayVars, stage, reconVars, clockVars, classVars, clientVars, pc, authToken,
                   args, bm, datapointResult, goalStatus, polls, trace, failure,
                   outcome, invocations, listTool, lbm, goals, details, listed>>

\* getUser() resolved
ListGetUserOk ==
    /\ lpc = "validating"
    /\ lbm' = _bmndr
    /\ lpc' = "getUserSkinny"
    /\ UNCHANGED <<dayVars, stage, reconVars, clockVars, classVars, submitVars, clientVars,
                   listTool, goals, details, listed>>

\* getUser() rejected with 401 or 422
ListGetUserRejected ==
    /\ lpc = "validating"
    /\ \E error \in GetUserErrors : error.status = 401 \/ error.status = 422
    /\ _bmndr' = "null"
    /\ lbm' = "errorContent"
    /\ lpc' = "getUserSkinny"
    /\ UNCHANGED <<dayVars, stage, reconVars, clockVars, classVars, clientVars, pc, authToken,
                   args, bm, datapointResult, goalStatus, polls, trace, failure,
                   outcome, invocations, listTool, goals, details, listed>>

\* getUser() rejected with anything else: bmndr() rethrows into listGoals
ListGetUserFails ==
    /\ lpc = "validating"
    /\ \E error \in GetUserErrors :
          /\ error.status # 401 /\ error.status # 422
          /\ ListCaught(error)
    /\ _bmndr' = "null"
    /\ UNCHANGED <<dayVars, stage, reconVars, clockVars, classVars, clientVars, pc, authToken,
                   args, bm, datapointResult, goalStatus, polls, trace, failure,
                   outcome, invocations, listTool, lbm, goals, details>>

\* bm.getUserSkinny on the error content: a TypeError, no remote call
ListWithoutClient ==
    /\ lpc = "getUserSkinny"
    /\ lbm = "errorContent"
    /\ ListCaught(NoClientForListing)
    /\ UNCHANGED <<dayVars, stage, reconVars, clockVars, classVars, submitVars, clientVars,
                   listTool, lbm, goals, details>>

\* await bm.getUserSkinny() rejected
GetUserSkinnyFails ==
    /\ lpc = "getUserSkinny"
    /\ lbm = "handle"
    /\ \E error \in SkinnyErrors : ListCaught(error)
    /\ UNCHANGED <<dayVars, stage, reconVars, clockVars, classVars, submitVars, clientVars,
                   listTool, lbm, goals, details>>

\* the day-start memo after the calls of getUrgencyHorizon made in a step
\* (built: whether the step built a processedGoal)
MemoAfter(built) ==
    /\ _dayStartString' = IF built THEN HorizonAt(0).str ELSE _dayStartString
    /\ _dayStartSeconds' = IF built THEN HorizonAt(0).sec ELSE _dayStartSeconds

\* await bm.getUserSkinny() resolved; goals.map starts getGoalDetails for
\* each goal in turn, each running up to its first await
GetUserSkinnyOk ==
    /\ lpc = "getUserSkinny"
    /\ lbm = "handle"
    /\ \E list \in GoalLists :
          /\ goals' = list
          /\ details' = [i \in 1..Len(list) |-> StartDetails(list[i], listTool)]
          /\ MemoAfter(\E i \in 1..Len(list) : ~needsAutoratchetCheck(list[i], now))
    /\ lpc' = "branches"
    /\ UNCHANGED <<dayVars, stage, reconVars, now, zone, envDayStart, classVars, submitVars,
                   clientVars, listTool, lbm, listed>>

\* a getGoalDetails call: its first getEmaciatedGoal resolved
FirstFetchOk(i) ==
    /\ lpc = "branches"
    /\ details[i].pc = "fetch1"
    /\ \E full \in FullProjections(goals[i]) :
          details' = [details EXCEPT
                         ![i] = AfterFirstFetch(details[i], goals[i], full, listTool)]
    /\ MemoAfter(TRUE)
    /\ UNCHANGED <<dayVars, stage, reconVars, now, zone, envDayStart, classVars, submitVars,
                   clientVars, lpc, listTool, lbm, goals, listed>>

\* a getGoalDetails call: its first getEmaciatedGoal rejected
FirstFetchFails(i) ==
    /\ lpc = "branches"
    /\ details[i].pc = "fetch1"
    /\ details' = [details EXCEPT
                      ![i] = AfterFirstFetchFails(details[i], goals[i], listTool)]
    /\ MemoAfter(TRUE)
    /\ UNCHANGED <<dayVars, stage, reconVars, now, zone, envDayStart, classVars, submitVars,
                   clientVars, lpc, listTool, lbm, goals, listed>>

\* a getGoalDetails call: its second getEmaciatedGoal resolved
SecondFetchOk(i) ==
    /\ lpc = "branches"
    /\ details[i].pc = "fetch2"
    /\ \E full \in FullProjections(goals[i]) :
          details' = [details EXCEPT ![i] = AfterSecondFetch(details[i], full)]
    /\ UNCHANGED <<dayVars, stage, reconVars, clockVars, classVars, submitVars, clientVars,
                   lpc, listTool, lbm, goals, listed>>

\* a getGoalDetails call: its second getEmaciatedGoal rejected
SecondFetchFails(i) ==
    /\ lpc = "branches"
    /\ details[i].pc = "fetch2"
    /\ details' = [details EXCEPT ![i] = AfterSecondFetchFails(details[i])]
    /\ UNCHANGED <<dayVars, stage, reconVars, clockVars, classVars, submitVars, clientVars,
                   lpc, listTool, lbm, goals, listed>>

\* Promise.all resolved: every getGoalDetails call has returned
ListReturn ==
    /\ lpc = "branches"
    /\ \A i \in 1..Len(details) : details[i].pc = "done"
    /\ listed' = ListContent(GoalsWithStatus, listTool)
    /\ lpc' = "done"
    /\ UNCHANGED <<dayVars, stage, reconVars, clockVars, classVars, submitVars, clientVars,
                   listTool, lbm, goals, details>>

InitList ==
    /\ stage = "input"
    /\ goal = NoGoal
    /\ rec = NoRec
    /\ rec2 = NoRec
    /\ now = ListClock
    /\ zone = 0
    /\ envDayStart \in {NoString, Str(<<"9", ":", "3", "0", " ", "P", "M">>)}
    /\ _dayStartString = NoString
    /\ _dayStartSeconds = _dayStartDefault
    /\ loseIn = 0
    /\ horizon = "none"
    /\ pc = "idle"
    /\ authToken \in BOOLEAN
    /\ _bmndr \in {"null"} \cup (IF authToken THEN {"handle"} ELSE {})
    /\ args = NoArgs
    /\ bm = "none"
    /\ datapointResult = NoDatapoint
    /\ goalStatus = NoGoal
    /\ polls = <<>>
    /\ trace = <<>>
    /\ failure = NoFailure
    /\ outcome = NoOutcome
    /\ invocations = 0
    /\ ListIdle
    /\ DayIdle
    /\ ClientIdle

NextList ==
    \/ ListInvoke
    \/ ListBmndrCached
    \/ ListBmndrNoToken
    \/ ListBmndrConstruct
    \/ ListGetUserOk
    \/ ListGetUserRejected
    \/ ListGetUserFails
    \/ ListWithoutClient
    \/ GetUserSkinnyFails
    \/ GetUserSkinnyOk
    \/ \E i \in 1..Len(details) : FirstFetchOk(i)
    \/ \E i \in 1..Len(details) : FirstFetchFails(i)
    \/ \E i \in 1..Len(details) : SecondFetchOk(i)
    \/ \E i \in 1..Len(details) : SecondFetchFails(i)
    \/ ListReturn

SpecList == InitList /\ [][NextList]_vars


\* ------------------------------------------------------------------------
\* Claims about the listings
\* ------------------------------------------------------------------------

ListingSucceeded == lpc = "done" /\ ~listed.isError

\* a processed goal without its fine print
WithoutFineprint(pg) == [pg EXCEPT !.hasFineprint = FALSE, !.fineprint = ""]

CoreOf(seq) == [i \in 1..Len(seq) |-> WithoutFineprint(seq[i])]

\* what list_goals returns in the remote state of the current listing
UnfilteredGoals == ListContent(GoalsWithStatus, "list_goals").goals

\* C12: for one remote state, beemergencies returns exactly the goals of the
\* unfiltered listing whose reconciled safe_days is 0, and calendial exactly
\* those whose horizon is calendial, each in the relative order the goals
\* have in the unfiltered listing.
C12_FilteredSubsequence ==
    ListingSucceeded =>
        /\ listTool = "beemergencies" =>
              CoreOf(listed.goals) =
                  SelectSeq(CoreOf(UnfilteredGoals), LAMBDA pg : pg.safe_days = 0)
        /\ listTool = "calendial" =>
              CoreOf(listed.goals) =
                  SelectSeq(CoreOf(UnfilteredGoals),
                            LAMBDA pg : pg.urgency_horizon = "calendial")
        /\ listed.count = Len(listed.goals)

\* a beemergencies listing that kept two of three goals, and out of input order
C12_Witness ==
    /\ ListingSucceeded
    /\ listTool = "beemergencies"
    /\ Len(goals) = 3
    /\ Len(listed.goals) = 2
    /\ listed.goals[1].slug = goals[3].slug

\* the ordinal comparison of two strings, code unit by code unit
\* (the characters of urgencykeys in the order of their UTF-16 code units:
\* - 0..9 ; A..Z _ a..z)
CodeUnitOrder == <<"-">> \o Digits \o <<";">> \o UpperLetters \o <<"_">> \o LowerLetters

OrdinalCompare(a, b) ==
    CompareWeights([i \in 1..Len(a) |-> IndexIn(CodeUnitOrder, a[i])],
                   [i \in 1..Len(b) |-> IndexIn(CodeUnitOrder, b[i])])

\* C13: whatever the order in which the per-goal fetches complete, the
\* listing returns only after every one of them has settled, each call has
\* filled the slot of its own goal only, and the goals come back in
\* ascending ordinal string order of urgencykey.
C13_OrdinalOrderOnceSettled ==
    ListingSucceeded =>
        /\ \A i \in 1..Len(details) :
              /\ details[i].pc = "done"
              /\ details[i].processedGoal.slug = goals[i].slug
        /\ \A i, j \in 1..Len(listed.goals) :
              i < j => OrdinalCompare(listed.goals[i].urgencykey,
                                      listed.goals[j].urgencykey) < 0

\* how the fetches of the i-th getGoalDetails call went
FirstFetchFailed(i) ==
    Len(details[i].fetches) >= 2 /\ details[i].fetches[1] = "first"
        /\ details[i].fetches[2] = "failed"

FirstFetchSucceeded(i) ==
    Len(details[i].fetches) >= 2 /\ details[i].fetches[1] = "first"
        /\ details[i].fetches[2] = "ok"

AnyFetchFailed(i) ==
    \E k \in 1..Len(details[i].fetches) : details[i].fetches[k] = "failed"

\* the i-th processed goal carries the values of the lightweight goal
CarriesLightweight(i) ==
    /\ details[i].processedGoal.safe_days = goals[i].safebuf
    /\ details[i].processedGoal.safebuf = goals[i].safebuf
    /\ details[i].processedGoal.due_by = formatDueDate(goals[i].losedate)
    /\ details[i].processedGoal.urgencykey = goals[i].urgencykey

\* the i-th processed goal carries the reconciled values of the fetched goal
CarriesReconciled(i) ==
    /\ details[i].processedGoal.safe_days =
           adjustForAutoratchet(details[i].goalData).safeDays
    /\ details[i].processedGoal.due_by =
           adjustForAutoratchet(details[i].goalData).dueBy
    /\ details[i].processedGoal.urgencykey =
           adjustForAutoratchet(details[i].goalData).urgencykey

\* C14: when the fetch of a goal's full projection fails, the listing still
\* succeeds; the unfiltered output holds every goal; the goal of the failed
\* fetch carries its lightweight safebuf, deadline and urgencykey; and the
\* other goals are as they would be without the failure.
C14_FetchFailureIsolated ==
    (lpc = "done" /\ \E i \in 1..Len(details) : AnyFetchFailed(i)) =>
        /\ ~listed.isError
        /\ listTool = "list_goals" =>
              /\ listed.count = Len(goals)
              /\ \A i \in 1..Len(goals) :
                    \E k \in 1..Len(listed.goals) :
                        listed.goals[k] = details[i].processedGoal
        /\ \A i \in 1..Len(details) :
              /\ AnyFetchFailed(i) => CarriesLightweight(i)
              /\ FirstFetchSucceeded(i) => CarriesReconciled(i)
              /\ details[i].fetches = <<>> => CarriesLightweight(i)

\* an unfiltered listing with one goal's fetch failed and another goal's
\* fetch done and tightened
C14_Witness ==
    /\ lpc = "done"
    /\ listTool = "list_goals"
    /\ \E i, j \in 1..Len(details) :
          /\ FirstFetchFailed(i)
          /\ goals[i].safebuf > 0
          /\ FirstFetchSucceeded(j)
          /\ details[j].processedGoal.safe_days < details[j].goalData.safebuf

\* every field of the i-th processed goal is the lightweight goal's
AllFromLightweight(i) ==
    /\ details[i].processedGoal.current_value = goals[i].curval
    /\ details[i].processedGoal.safe_days
           \in {goals[i].safebuf, adjustForAutoratchet(goals[i]).safeDays}
    /\ details[i].processedGoal.urgencykey
           \in {goals[i].urgencykey, adjustForAutoratchet(goals[i]).urgencykey}
    /\ details[i].processedGoal.hasFineprint =>
           details[i].processedGoal.fineprint = goals[i].fineprint

\* every field of the i-th processed goal is the fetched full goal's
AllFromFull(i) ==
    /\ details[i].alreadyHaveFullData
    /\ details[i].processedGoal.current_value = details[i].goalData.curval
    /\ CarriesReconciled(i)
    /\ details[i].processedGoal.fineprint = details[i].goalData.fineprint

\* C15: the fields of each processed goal all come from one projection of
\* the goal, the lightweight one or the full one, never some from each.
C15_OneProjection ==
    ListingSucceeded =>
        \A i \in 1..Len(details) : AllFromLightweight(i) \/ AllFromFull(i)

\* C16: list_goals returns the goals adjusted for any impending autoratchet:
\* every listed goal whose autoratchet is enabled with safebuf above
\* cap = autoratchet + 1 is reported with safe_days = cap, the deadline moved
\* in by the days above the cap and the urgencykey rewritten to it, and the
\* goals are ordered by the reported urgencykey.
C16_ImpendingAutoratchetApplied ==
    (ListingSucceeded /\ listTool = "list_goals") =>
        /\ \A i \in 1..Len(details) :
              AboveCap(details[i].goalData) =>
                  /\ details[i].processedGoal.safe_days =
                         details[i].goalData.autoratchet.v + 1
                  /\ details[i].processedGoal.due_by =
                         formatDueDate(details[i].goalData.losedate
                             - (details[i].goalData.safebuf
                                - (details[i].goalData.autoratchet.v + 1))
                               * SECONDS_PER_DAY)
                  /\ DeadlineSegmentRewritten(
                         details[i].goalData.urgencykey,
                         details[i].processedGoal.urgencykey,
                         details[i].goalData.losedate
                             - (details[i].goalData.safebuf
                                - (details[i].goalData.autoratchet.v + 1))
                               * SECONDS_PER_DAY)
        /\ \A i, j \in 1..Len(listed.goals) :
              i < j => KeyCompare(listed.goals[i], listed.goals[j]) <= 0

\* C17: beemergencies returns the goals that need attention before bed today
\* or tomorrow: a goal is in its output exactly when its deadline falls in
\* the today or the tomorrow horizon.
C17_TodayOrTomorrow ==
    (ListingSucceeded /\ listTool = "beemergencies") =>
        \A i \in 1..Len(details) :
            (\E k \in 1..Len(listed.goals) :
                 listed.goals[k].slug = goals[i].slug)
            <=> details[i].processedGoal.urgency_horizon \in {"today", "tomorrow"}

\* the i-th goal has a last datapoint less than a day old
TouchedWithinADay(i) ==
    /\ goals[i].last_datapoint.present
    /\ now - goals[i].last_datapoint.timestamp < 86400

\* C20: a goal's full projection is fetched for reconciliation exactly when
\* the goal has a last datapoint less than 86400 seconds old; otherwise its
\* lightweight values are kept. A goal whose full projection that step
\* retrieved is not fetched again when the filter asks for full data, so no
\* goal's full projection is retrieved successfully more than once in a
\* listing.
C20_FetchWhenTouchedAndOnce ==
    \A i \in 1..Len(details) :
        /\ TouchedWithinADay(i) <=>
               (details[i].fetches # <<>> /\ details[i].fetches[1] = "first")
        /\ (~TouchedWithinADay(i) /\ details[i].pc = "done") => CarriesLightweight(i)
        /\ FirstFetchSucceeded(i) => Count(details[i].fetches, "second") = 0
        /\ Count(details[i].fetches, "ok") <= 1

\* a filtered listing whose filter asked for the full data of a goal that the
\* reconciling fetch had retrieved, and of a goal whose first fetch had failed
C20_Witness ==
    /\ ListingSucceeded
    /\ listTool = "beemergencies"
    /\ \E i, j \in 1..Len(details) :
          /\ details[i].fetches = <<"first", "ok">>
          /\ details[i].processedGoal.safe_days = 0
          /\ details[j].fetches = <<"second", "ok">>
    /\ \E i \in 1..Len(details) : ~TouchedWithinADay(i) /\ goals[i].last_datapoint.present

\* ------------------------------------------------------------------------
\* The poll loop under fair scheduling
\* ------------------------------------------------------------------------

\* the steps of the invocation past its submission, by the position they
\* leave: a step of Wait; a step of FetchGoal, FetchNull or FetchFails; a
\* step of Settle or SettleThrows
WaitStep == pc = "wait" /\ Len(polls) < MaxPolls /\ pc' = "fetch"

FetchStep == pc = "fetch" /\ pc' \in {"wait", "settled", "done"}

SettleStep == pc = "settled" /\ pc' = "done"

\* the timer of the wait fires, the fetch of the loop completes, and the
\* code after the loop runs
SpecSubmitFair ==
    /\ InitSubmit
    /\ [][NextSubmit]_vars
    /\ WF_pc(WaitStep)
    /\ WF_pc(FetchStep)
    /\ WF_pc(SettleStep)

\* every goal fetched so far in this invocation was still queued
OnlyQueuedSoFar == polls # <<>> /\ \A i \in 1..Len(polls) : polls[i].queued

\* the loop is still going: about to wait, or about to fetch
InLoop == pc \in {"wait", "fetch"} /\ outcome = NoOutcome

\* C18: while every fetched goal is queued the invocation stays in the loop,
\* waiting and fetching again, and returns no status (only a failing fetch
\* ends it); the wait leads to the next fetch and the fetch to its outcome;
\* and once a goal that is not queued has been fetched, the invocation
\* eventually returns the goal status.
C18_LoopUntilSettled ==
    /\ [](OnlyQueuedSoFar =>
             \/ InLoop
             \/ pc = "done" /\ failure.at = "getGoal" /\ ~Succeeded)
    /\ (pc = "wait" /\ Len(polls) < MaxPolls) ~> (pc = "fetch")
    /\ (pc = "fetch" /\ Len(polls) < MaxPolls) ~> (pc \in {"wait", "settled", "done"})
    /\ (pc = "settled" /\ ~adjustForAutoratchet(goalStatus).threw) ~> Succeeded

\* two queued goals fetched, the loop still going, then a settled one
\* fetched and the status returned
C18_Witness ==
    /\ Succeeded
    /\ Len(polls) = 3
    /\ polls[1].queued
    /\ polls[2].queued
    /\ ~polls[3].queued

\* ------------------------------------------------------------------------
\* bmndr() under concurrent tool invocations
\* ------------------------------------------------------------------------

NumCallers == 3

MaxConstructions == 2

Callers == 1..NumCallers

\* what a call of bmndr() gave its caller: the handle (with whether getUser
\* had resolved for it by then, and which construction it came from), the
\* error content, or the rethrown error
NoReceived == [what |-> "none", validated |-> FALSE, construction |-> 0]

ReceivedHandle == [what |-> "handle", validated |-> validated,
                   construction |-> constructions]

ReceivedErrorContent == [what |-> "errorContent", validated |-> FALSE, construction |-> 0]

ReceivedThrown == [what |-> "thrown", validated |-> FALSE, construction |-> 0]

\* a tool invocation calls bmndr() and finds _bmndr !== null
ClientCached(c) ==
    /\ cpc[c] \in {"idle", "done"}
    /\ _bmndr # "null"
    /\ received' = [received EXCEPT ![c] = ReceivedHandle]
    /\ cpc' = [cpc EXCEPT ![c] = "done"]
    /\ UNCHANGED <<dayVars, stage, reconVars, clockVars, classVars, submitVars, listVars,
                   validated, constructions>>

\* a tool invocation calls bmndr() with no AUTH_TOKEN
ClientNoToken(c) ==
    /\ cpc[c] \in {"idle", "done"}
    /\ _bmndr = "null"
    /\ ~authToken
    /\ received' = [received EXCEPT ![c] = ReceivedErrorContent]
    /\ cpc' = [cpc EXCEPT ![c] = "done"]
    /\ UNCHANGED <<dayVars, stage, reconVars, clockVars, classVars, submitVars, listVars,
                   validated, constructions>>

\* a tool invocation calls bmndr(): _bmndr = beeminder(authToken), and the
\* call is suspended at await _bmndr.getUser()
ClientConstruct(c) ==
    /\ cpc[c] \in {"idle", "done"}
    /\ _bmndr = "null"
    /\ authToken
    /\ constructions < MaxConstructions
    /\ _bmndr' = "handle"
    /\ validated' = FALSE
    /\ constructions' = constructions + 1
    /\ received' = [received EXCEPT ![c] = NoReceived]
    /\ cpc' = [cpc EXCEPT ![c] = "validating"]
    /\ UNCHANGED <<dayVars, stage, reconVars, clockVars, classVars, listVars, pc, authToken,
                   args, bm, datapointResult, goalStatus, polls, trace, failure,
                   outcome, invocations>>

\* getUser() resolved: the suspended call returns _bmndr
ClientGetUserOk(c) ==
    /\ cpc[c] = "validating"
    /\ validated' = TRUE
    /\ received' = [received EXCEPT ![c] = [ReceivedHandle EXCEPT !.validated = TRUE]]
    /\ cpc' = [cpc EXCEPT ![c] = "done"]
    /\ UNCHANGED <<dayVars, stage, reconVars, clockVars, classVars, submitVars, listVars,
                   constructions>>

\* getUser() rejected with 401 or 422: _bmndr = null, the error content
ClientGetUserRejected(c) ==
    /\ cpc[c] = "validating"
    /\ \E error \in GetUserErrors : error.status = 401 \/ error.status = 422
    /\ _bmndr' = "null"
    /\ received' = [received EXCEPT ![c] = ReceivedErrorContent]
    /\ cpc' = [cpc EXCEPT ![c] = "done"]
    /\ UNCHANGED <<dayVars, stage, reconVars, clockVars, classVars, listVars, pc, authToken,
                   args, bm, datapointResult, goalStatus, polls, trace, failure,
                   outcome, invocations, validated, constructions>>

\* getUser() rejected with anything else: _bmndr = null, the error rethrown
ClientGetUserFails(c) ==
    /\ cpc[c] = "validating"
    /\ \E error \in GetUserErrors : error.status # 401 /\ error.status # 422
    /\ _bmndr' = "null"
    /\ received' = [received EXCEPT ![c] = ReceivedThrown]
    /\ cpc' = [cpc EXCEPT ![c] = "done"]
    /\ UNCHANGED <<dayVars, stage, reconVars, clockVars, classVars, listVars, pc, authToken,
                   args, bm, datapointResult, goalStatus, polls, trace, failure,
                   outcome, invocations, validated, constructions>>

InitClient ==
    /\ stage = "input"
    /\ goal = NoGoal
    /\ rec = NoRec
    /\ rec2 = NoRec
    /\ ClockIdle
    /\ loseIn = 0
    /\ horizon = "none"
    /\ pc = "idle"
    /\ authToken \in BOOLEAN
    /\ _bmndr = "null"
    /\ args = NoArgs
    /\ bm = "none"
    /\ datapointResult = NoDatapoint
    /\ goalStatus = NoGoal
    /\ polls = <<>>
    /\ trace = <<>>
    /\ failure = NoFailure
    /\ outcome = NoOutcome
    /\ invocations = 0
    /\ ListIdle
    /\ DayIdle
    /\ cpc = [c \in Callers |-> "idle"]
    /\ received = [c \in Callers |-> NoReceived]
    /\ validated = FALSE
    /\ constructions = 0

NextClient ==
    \E c \in Callers :
        \/ ClientCached(c)
        \/ ClientNoToken(c)
        \/ ClientConstruct(c)
        \/ ClientGetUserOk(c)
        \/ ClientGetUserRejected(c)
        \/ ClientGetUserFails(c)

SpecClient == InitClient /\ [][NextClient]_vars

\* C19: across concurrent and interleaved tool invocations, no invocation
\* receives a handle whose credential validation has not completed
\* successfully, and the handle is constructed and validated at most once:
\* every invocation that gets a handle gets the one validated handle.
C19_OnlyTheValidatedHandle ==
    /\ \A c \in Callers : received[c].what = "handle" => received[c].validated
    /\ \A c, d \in Callers :
          (received[c].what = "handle" /\ received[d].what = "handle") =>
              received[c].construction = received[d].construction

\* ------------------------------------------------------------------------
\* getDayStart() across changes of DAY_START
\* ------------------------------------------------------------------------

\* values of process.env.DAY_START: unset, empty, times of day, strings the
\* regular expression does not match, and strings it matches although they
\* name no time of day
DayStartValues ==
    {NoString,
     Str(<<>>),
     Str(<<"0">>),
     Str(<<"9", ":", "3", "0", " ", "P", "M">>),
     Str(<<"1", "2", "a", "m">>),
     Str(<<"7", "h">>),
     Str(<<" ">>),
     Str(<<"2", "5">>),
     Str(<<"1", "3", "p", "m">>),
     Str(<<"9", "9", ":", "9", "9">>)}

\* process.env.DAY_START is given another value
SetDayStart ==
    /\ \E s \in DayStartValues :
          /\ s # envDayStart
          /\ envDayStart' = s
    /\ stage' = "changed"
    /\ UNCHANGED <<reconVars, now, zone, _dayStartString, _dayStartSeconds,
                   classVars, submitVars, listVars, clientVars, dayVars>>

\* a call of getDayStart()
CallGetDayStart ==
    /\ dayStart' = getDayStart(envDayStart, _dayStartString, _dayStartSeconds).ret
    /\ _dayStartString' =
           getDayStart(envDayStart, _dayStartString, _dayStartSeconds).str
    /\ _dayStartSeconds' =
           getDayStart(envDayStart, _dayStartString, _dayStartSeconds).sec
    /\ stage' = "called"
    /\ UNCHANGED <<reconVars, now, zone, envDayStart, classVars, submitVars,
                   listVars, clientVars>>

InitDayStart ==
    /\ stage = "input"
    /\ goal = NoGoal
    /\ rec = NoRec
    /\ rec2 = NoRec
    /\ now = BaseDay
    /\ zone = 0
    /\ envDayStart \in DayStartValues
    /\ _dayStartString = NoString
    /\ _dayStartSeconds = _dayStartDefault
    /\ loseIn = 0
    /\ horizon = "none"
    /\ SubmitIdle
    /\ ListIdle
    /\ DayIdle
    /\ ClientIdle

NextDayStart == SetDayStart \/ CallGetDayStart

SpecDayStart == InitDayStart /\ [][NextDayStart]_vars

\* what parsing the string afresh, with nothing remembered, gives
FreshParse(timeStr) ==
    IF ~timeStr.set \/ timeStr.str = <<>> THEN 25200
    ELSE IF ~DayStartMatch(timeStr.str).ok THEN 25200
    ELSE DayStartSecondsOf(DayStartMatch(timeStr.str))

\* C21: after any sequence of changes of the day-start string, getDayStart
\* returns what a fresh stateless parse of the current string returns; an
\* unset or unparsable string gives the default 07:00 (25200 seconds); and
\* the returned offset is a time of day, within 0..86399 seconds.
C21_FreshAndWithinADay ==
    stage = "called" =>
        /\ dayStart = FreshParse(envDayStart)
        /\ (~envDayStart.set \/ ~DayStartMatch(envDayStart.str).ok) => dayStart = 25200
        /\ dayStart \in 0..86399

====
